---- MODULE Spec2Model ----
(***************************************************************************)
(* Model of the HR attrition dashboard: the two Streamlit scripts          *)
(* hr_analysis.py (variant 1) and hr_analysis2.py (variant 2).             *)
(*                                                                         *)
(* A script is executed top to bottom on every render.  One action models  *)
(* one section of a script; pc[v] is the section variant v executes next.  *)
(* The CSV file is the input; it never changes during a behaviour.         *)
(*                                                                         *)
(* Numbers.  pandas computes rates in binary floating point; the model     *)
(* keeps them as exact fractions [num, den] (den > 0) and compares them by *)
(* cross multiplication.  For every table of at most 12 rows the           *)
(* comparisons the scripts make (rate > 20, rate < 20, rate < 15,          *)
(* 100 - rate > 80, group > overall + 5, group < overall - 5,              *)
(* max - min > 5) and the rounding to one decimal give the same answer in  *)
(* IEEE double arithmetic as in exact arithmetic.                          *)
(* A salary increase is kept in tenths of a percent (115 is 11.5).         *)
(*                                                                         *)
(* Column names are written in ASCII:                                      *)
(*   "attrition_yn" = 퇴직여부   "quit"     = 퇴직                         *)
(*   "headcount"    = 직원수     "over18"   = 18세이상                     *)
(*   "dept"         = 부서       "sal_pct"  = 급여증가분백분율             *)
(*   "overtime"     = 야근정도                                             *)
(***************************************************************************)
EXTENDS Integers, Sequences, FiniteSets, TLC

VARIABLES
    file,      \* the CSV on disk: [kind, cols, rows]
    pc,        \* pc[v]: next script section of variant v
    df,        \* df[v]: the table load_df returned
    cache,     \* cache[v]: the st.cache_data entry of load_df
    ui,        \* ui[v]: st.error / st.info messages shown in this render
    kpi,       \* kpi[v]: n, quit_n, quit_rate, stay_rate and the metric deltas
    dept,      \* dept[v]: per-department series handed to the bar chart
    sal,       \* sal[v]: per-salary-bucket series handed to the line chart
    ot,        \* ot[v]: per-overtime-level series handed to the bar chart
    insights,  \* insights[v]: the sentences of the summary / insight panel
    info       \* info[v]: the "data summary" expander of variant 2

vars == <<file, pc, df, cache, ui, kpi, dept, sal, ot, insights, info>>

Variants == {1, 2}

\* ------------------------------------------------------------------ bounds
\* Rows of a table in the loader-focused specification.
MaxRows == 2
\* Rows of a table in the aggregation-focused specification.
MaxRowsAgg == 5

\* ------------------------------------------------------- program constants
HighQuitPct == 20      \* quit_rate > 20 / quit_rate < 20
DeptMarginPct == 5     \* dept_mean + 5, dept_mean - 5
OtSpreadPct == 5       \* ot.max() - ot.min() > 5
GoodStayPct == 80      \* stay_rate > 80
OkQuitPct == 15        \* quit_rate < 15
Percent == 100         \* mean() * 100, 100 - quit_rate

\* ----------------------------------------------------------------- columns
AllCols == {"attrition_yn", "headcount", "over18", "dept", "sal_pct", "overtime"}
DropCols == {"headcount", "over18"}
NULL == "null"      \* a missing string cell (NaN)
NAN == -1           \* a missing numeric cell (NaN)

\* ------------------------------------------------------------- arithmetic
Frac(a, b) == [num |-> a, den |-> b]
FLt(x, y) == x.num * y.den < y.num * x.den
FLe(x, y) == x.num * y.den <= y.num * x.den
FEq(x, y) == x.num * y.den = y.num * x.den
FGt(x, y) == FLt(y, x)
FAddInt(x, k) == Frac(x.num + k * x.den, x.den)
FSub(x, y) == Frac(x.num * y.den - y.num * x.den, x.den * y.den)
FInt(k) == Frac(k, 1)

\* numpy rint: a / b rounded to the nearest integer, ties to the even one (b > 0, a >= 0)
RoundHalfEven(a, b) ==
    LET q == a \div b
        r == a % b
    IN  IF 2 * r < b THEN q
        ELSE IF 2 * r > b THEN q + 1
        ELSE IF q % 2 = 0 THEN q ELSE q + 1

\* ------------------------------------------------------------- sequences
RECURSIVE SumSeq(_)
SumSeq(s) == IF s = <<>> THEN 0 ELSE Head(s) + SumSeq(Tail(s))

Column(rows, c) == [i \in 1..Len(rows) |-> rows[i][c]]
Range(s) == {s[i] : i \in 1..Len(s)}

\* ------------------------------------------------------------------ tables
\* A table is [cols, rows]; a row is a function from the table's columns to cells.
EMPTY_DF == [cols |-> {}, rows |-> <<>>]                 \* pd.DataFrame()
DfEmpty(t) == t.cols = {} \/ Len(t.rows) = 0             \* DataFrame.empty

\* A variant of MapYesNo that fills unrecognised values with 0 (as .fillna(0) would).
MapYesNoFillZero(x) == IF x = "Yes" THEN 1 ELSE 0

\* Series.map({"Yes": 1, "No": 0}): any other value, a missing one included, maps to NaN
MapYesNo(x) == IF x = "Yes" THEN 1 ELSE IF x = "No" THEN 0 ELSE NAN

\* Series.astype("int8") raises on a NaN cell
AsTypeInt8Raises(series) == \E i \in 1..Len(series) : series[i] = NAN

\* df["quit"] = <series>
WithQuit(t) ==
    [cols |-> t.cols \cup {"quit"},
     rows |-> [i \in 1..Len(t.rows) |->
                 [c \in t.cols \cup {"quit"} |->
                    IF c = "quit" THEN MapYesNo(t.rows[i]["attrition_yn"])
                    ELSE t.rows[i][c]]]]

\* df.drop(cs, axis=1, inplace=True), for cs that are all present
DropColumns(t, cs) ==
    [cols |-> t.cols \ cs,
     rows |-> [i \in 1..Len(t.rows) |-> [c \in t.cols \ cs |-> t.rows[i][c]]]]

\* What a call of load_df does: it raises, or it returns a table after emitting messages.
Raised(e) == [raised |-> e, value |-> EMPTY_DF, msgs |-> <<>>]
Returned(t, m) == [raised |-> "", value |-> t, msgs |-> m]

\* variant 2: drop_cols = [both] if all(col in df.columns ...) else []
DropCols2(cols) == IF DropCols \subseteq cols THEN DropCols ELSE {}

\* hr_analysis.py load_df
LoadDf1(f) ==
    IF f.kind # "table" THEN Returned(EMPTY_DF, <<>>)
    ELSE IF "attrition_yn" \notin f.cols THEN Raised("KeyError")
    ELSE IF AsTypeInt8Raises(Column(WithQuit(f).rows, "quit")) THEN Raised("IntCastingNaNError")
    ELSE IF ~(DropCols \subseteq f.cols) THEN Raised("KeyError")
    ELSE Returned(DropColumns(WithQuit(f), DropCols), <<>>)

\* hr_analysis2.py load_df
LoadDf2(f) ==
    IF f.kind = "missing" THEN Returned(EMPTY_DF, <<"file_not_found">>)
    ELSE IF f.kind # "table" THEN Returned(EMPTY_DF, <<"load_error">>)
    ELSE IF "attrition_yn" \in f.cols /\ AsTypeInt8Raises(Column(WithQuit(f).rows, "quit"))
         THEN Raised("IntCastingNaNError")
    ELSE LET t == IF "attrition_yn" \in f.cols THEN WithQuit(f) ELSE [cols |-> f.cols, rows |-> f.rows]
         IN  Returned(DropColumns(t, DropCols2(t.cols)), <<>>)

LoadDf(v, f) == IF v = 1 THEN LoadDf1(f) ELSE LoadDf2(f)

\* @st.cache_data: a stored entry is returned, and the messages the call emitted are replayed
NO_CACHE == [hit |-> FALSE, value |-> EMPTY_DF, msgs |-> <<>>]
CachedLoadDf(v, f, c) == IF c.hit THEN Returned(c.value, c.msgs) ELSE LoadDf(v, f)

\* ------------------------------------------------------------- aggregates
\* Series.sum() / Series.mean() * 100 of the quit column
QuitSum(rows) == SumSeq(Column(rows, "quit"))
MeanPct(rows) == Frac(Percent * QuitSum(rows), Len(rows))

\* Every string cell value, in the order Python sorts strings (by code point).
StringOrder == <<"A", "B", "C", "No", "Yes">>

\* The keys of a groupby come out sorted; NaN keys are left out (dropna=True)
RECURSIVE SortedInts(_)
SortedInts(S) ==
    IF S = {} THEN <<>>
    ELSE LET m == CHOOSE x \in S : \A y \in S : x <= y
         IN  <<m>> \o SortedInts(S \ {m})

GroupKeys(rows, c) ==
    LET present == Range(Column(rows, c))
        HasKey(k) == k \in present
    IN  IF c = "bucket" THEN SortedInts(present \ {NAN})
        ELSE SelectSeq(StringOrder, HasKey)

\* df.groupby(c)["quit"].mean() * 100: one entry per key, ascending by key
\* A variant of GroupRows that forgets the group and takes every row.
GroupRowsAll(rows, c, k) == rows

GroupRows(rows, c, k) == LET InGroup(r) == r[c] = k IN SelectSeq(rows, InGroup)
GroupMeanPct(rows, c) ==
    LET keys == GroupKeys(rows, c)
    IN  [i \in 1..Len(keys) |->
           [key |-> keys[i], rate |-> MeanPct(GroupRows(rows, c, keys[i]))]]

\* DataFrame.round(1) of mean * 100: the rate in tenths, ties to even
RoundPct1(rows) == Frac(RoundHalfEven(10 * Percent * QuitSum(rows), Len(rows)), 10)

\* (df.groupby(c)["quit"].agg(['mean', 'count']) * 100).round(1)
GroupAggPct(rows, c) ==
    LET keys == GroupKeys(rows, c)
    IN  [i \in 1..Len(keys) |->
           [key |-> keys[i],
            rate |-> RoundPct1(GroupRows(rows, c, keys[i])),
            count_pct |-> Percent * Len(GroupRows(rows, c, keys[i]))]]

\* sort_values(ascending=False): entries in non-increasing order of rate.
\* An entry goes before the first entry with a strictly smaller rate, so
\* entries of equal rate keep their groupby order (pandas leaves the order of
\* equal rates to the sort algorithm; nothing below depends on it).
Before(a, b) == FGt(a.rate, b.rate)
RECURSIVE InsertDesc(_, _)
InsertDesc(e, s) ==
    IF s = <<>> THEN <<e>>
    ELSE IF Before(e, Head(s)) THEN <<e>> \o s
    ELSE <<Head(s)>> \o InsertDesc(e, Tail(s))
\* A variant of SortValuesDesc that leaves the series in groupby (key) order.
SortValuesNone(s) == s

RECURSIVE SortValuesDesc(_)
SortValuesDesc(s) ==
    IF s = <<>> THEN <<>>
    ELSE InsertDesc(s[Len(s)], SortValuesDesc(SubSeq(s, 1, Len(s) - 1)))

\* tmp = df[[sal_pct, quit]].dropna().copy(); tmp[bucket] = tmp[sal_pct].round().astype(int)
Bucket(tenths) == RoundHalfEven(tenths, 10)
SalBuckets(rows) ==
    LET NotNull(r) == r["sal_pct"] # NAN
        kept == SelectSeq(rows, NotNull)
    IN  [i \in 1..Len(kept) |->
           [c \in {"bucket", "quit"} |->
              IF c = "bucket" THEN Bucket(kept[i]["sal_pct"]) ELSE kept[i]["quit"]]]

\* Series.idxmin() / idxmax(): the key of the first entry with the least / greatest rate
IdxMin(s) ==
    s[CHOOSE i \in 1..Len(s) :
        /\ \A j \in 1..Len(s) : FLe(s[i].rate, s[j].rate)
        /\ \A j \in 1..(i - 1) : FLt(s[i].rate, s[j].rate)].key
IdxMax(s) ==
    s[CHOOSE i \in 1..Len(s) :
        /\ \A j \in 1..Len(s) : FLe(s[j].rate, s[i].rate)
        /\ \A j \in 1..(i - 1) : FLt(s[j].rate, s[i].rate)].key
\* series[label]
At(s, k) == s[CHOOSE i \in 1..Len(s) : s[i].key = k].rate
\* Series.max() / min()
MaxRate(s) == At(s, IdxMax(s))
MinRate(s) == At(s, IdxMin(s))

\* -------------------------------------------------------- script sections
\* KPI section
NO_KPI == [shown |-> FALSE, n |-> 0, quit_n |-> 0, quit_rate |-> Frac(0, 1),
           stay_rate |-> Frac(0, 1), stay_delta |-> "", quit_delta |-> ""]

\* A variant of StayRate that takes the rate for a fraction of 1.
StayRateOfOne(quit_rate) == FSub(FInt(1), quit_rate)

StayRate(quit_rate) == FSub(FInt(Percent), quit_rate)

\* hr_analysis.py: n, quit_n, quit_rate, stay_rate; the metrics carry no delta text
Kpi1(t) ==
    [shown |-> TRUE, n |-> Len(t.rows), quit_n |-> QuitSum(t.rows),
     quit_rate |-> MeanPct(t.rows), stay_rate |-> StayRate(MeanPct(t.rows)),
     stay_delta |-> "", quit_delta |-> ""]

\* hr_analysis2.py: only if the quit column exists; deltas from stay_rate > 80, quit_rate < 20
Kpi2(t) ==
    IF "quit" \notin t.cols THEN NO_KPI
    ELSE [shown |-> TRUE, n |-> Len(t.rows), quit_n |-> QuitSum(t.rows),
          quit_rate |-> MeanPct(t.rows), stay_rate |-> StayRate(MeanPct(t.rows)),
          stay_delta |-> IF FGt(StayRate(MeanPct(t.rows)), FInt(GoodStayPct))
                         THEN "higher_is_better" ELSE "needs_improvement",
          quit_delta |-> IF FLt(MeanPct(t.rows), FInt(HighQuitPct))
                         THEN "lower_is_better" ELSE "needs_attention"]

\* Department section
Dept1(t) == IF "dept" \in t.cols THEN SortValuesDesc(GroupMeanPct(t.rows, "dept")) ELSE <<>>
Dept2(t) ==
    IF "dept" \in t.cols /\ "quit" \in t.cols
    THEN SortValuesDesc(GroupAggPct(t.rows, "dept")) ELSE <<>>

\* Salary-increase section (the same computation in both scripts)
SalSeries(t) == GroupMeanPct(SalBuckets(t.rows), "bucket")
Sal1(t) == IF "sal_pct" \in t.cols THEN SalSeries(t) ELSE <<>>
Sal2(t) == IF "sal_pct" \in t.cols /\ "quit" \in t.cols THEN SalSeries(t) ELSE <<>>
\* hr_analysis.py: ax2.set_ylim(0, max(sal.values)+10) raises on an empty series
Sal1Raises(t) == "sal_pct" \in t.cols /\ SalSeries(t) = <<>>

\* Overtime section
Ot1(t) == IF "overtime" \in t.cols THEN GroupMeanPct(t.rows, "overtime") ELSE <<>>
Ot2(t) == IF "overtime" \in t.cols /\ "quit" \in t.cols
          THEN GroupMeanPct(t.rows, "overtime") ELSE <<>>
\* The bar containers the chart library makes for a bar plot without hue: one
\* per category, or a single one for all bars, depending on its version.
BarContainers(series, perCategory) == IF perCategory THEN Len(series) ELSE 1
\* hr_analysis.py: ax3.bar_label(ax3.containers[0]); ax3.bar_label(ax3.containers[1])
Ot1Raises(t, perCategory) ==
    "overtime" \in t.cols /\ BarContainers(Ot1(t), perCategory) < 2

\* Summary and insight sentences
Sentence(tag, names) == [tag |-> tag, names |-> names]
Keys(s) == [i \in 1..Len(s) |-> s[i].key]

\* A variant of QuitHigh with >= in place of >.
QuitHighOrEqual(rate) == FLe(FInt(HighQuitPct), rate)

QuitHigh(rate) == FGt(rate, FInt(HighQuitPct))                   \* quit_rate > 20
HighDept(d, mean) ==                                             \* dept[dept > dept_mean + 5]
    LET High(e) == FGt(e.rate, FAddInt(mean, DeptMarginPct)) IN Keys(SelectSeq(d, High))
LowDept(d, mean) ==                                              \* dept[dept < dept_mean - 5]
    LET Low(e) == FLt(e.rate, FAddInt(mean, 0 - DeptMarginPct)) IN Keys(SelectSeq(d, Low))
\* A variant of SalaryRuleFires that compares the lowest bucket with the highest bucket.
SalaryRuleByBucket(s) == FGt(s[1].rate, s[Len(s)].rate)

\* min_sal, max_sal = sal.idxmin(), sal.idxmax(); sal[min_sal] > sal[max_sal]
SalaryRuleFires(s) == FGt(At(s, IdxMin(s)), At(s, IdxMax(s)))
\* ot.max() - ot.min() > 5
OtRuleFires(o) == FGt(FSub(MaxRate(o), MinRate(o)), FInt(OtSpreadPct))

\* hr_analysis.py: the one-line summary, then the insight list
Insights1(t, k, d, s, o) ==
    <<Sentence(IF QuitHigh(k.quit_rate) THEN "summary_needs_attention"
               ELSE "summary_stable", <<>>)>>
    \o <<Sentence(IF QuitHigh(k.quit_rate) THEN "overall_needs_management"
                  ELSE "overall_stable", <<>>)>>
    \o (IF "dept" \in t.cols
        THEN (IF HighDept(d, MeanPct(t.rows)) # <<>>
              THEN <<Sentence("dept_high", HighDept(d, MeanPct(t.rows)))>> ELSE <<>>)
             \o (IF LowDept(d, MeanPct(t.rows)) # <<>>
                 THEN <<Sentence("dept_low", LowDept(d, MeanPct(t.rows)))>> ELSE <<>>)
        ELSE <<>>)
    \o (IF "sal_pct" \in t.cols
        THEN <<Sentence(IF SalaryRuleFires(s) THEN "low_raise_quits_more"
                        ELSE "no_salary_correlation", <<>>)>>
        ELSE <<>>)
    \o (IF "overtime" \in t.cols /\ OtRuleFires(o)
        THEN <<Sentence("overtime_high", <<IdxMax(o)>>)>> ELSE <<>>)

\* hr_analysis2.py: the insight box after the KPI tiles
Insights2(t, k) ==
    IF "quit" \notin t.cols THEN <<>>
    ELSE <<Sentence("quit_share", <<>>),
           Sentence(IF FGt(k.stay_rate, FInt(GoodStayPct)) THEN "stay_good"
                    ELSE "stay_needs_improvement", <<>>),
           Sentence(IF FLt(k.quit_rate, FInt(OkQuitPct)) THEN "quit_adequate"
                    ELSE "quit_measures_needed", <<>>)>>

\* hr_analysis2.py: the data summary expander (records, columns, missing cells)
NumericCols == {"headcount", "sal_pct", "quit"}
IsNull(c, x) == IF c \in NumericCols THEN x = NAN ELSE x = NULL
NO_INFO == [shown |-> FALSE, records |-> 0, columns |-> 0, nulls |-> 0]
DataSummary(t) ==
    [shown |-> TRUE, records |-> Len(t.rows), columns |-> Cardinality(t.cols),
     nulls |-> Cardinality({x \in (1..Len(t.rows)) \X t.cols : IsNull(x[2], t.rows[x[1]][x[2]])})]

\* The order of the sections in each script
After(v, p) ==
    IF v = 1
    THEN CASE p = "check" -> "kpi" [] p = "kpi" -> "dept" [] p = "dept" -> "sal"
           [] p = "sal" -> "ot" [] p = "ot" -> "insights" [] OTHER -> "done"
    ELSE CASE p = "check" -> "kpi" [] p = "kpi" -> "insights" [] p = "insights" -> "dept"
           [] p = "dept" -> "sal" [] p = "sal" -> "ot" [] p = "ot" -> "datainfo"
           [] OTHER -> "done"

Ended(p) == p \in {"done", "halted", "faulted"}

\* ----------------------------------------------------------------- actions
\* df = load_df()
Load(v) ==
    /\ pc[v] = "load"
    /\ LET r == CachedLoadDf(v, file, cache[v])
       IN  IF r.raised # ""
           THEN /\ pc' = [pc EXCEPT ![v] = "faulted"]
                /\ ui' = [ui EXCEPT ![v] = Append(@, r.raised)]
                /\ UNCHANGED <<df, cache>>
           ELSE /\ pc' = [pc EXCEPT ![v] = "check"]
                /\ ui' = [ui EXCEPT ![v] = @ \o r.msgs]
                /\ df' = [df EXCEPT ![v] = r.value]
                /\ cache' = [cache EXCEPT ![v] = [hit |-> TRUE, value |-> r.value, msgs |-> r.msgs]]
    /\ UNCHANGED <<file, kpi, dept, sal, ot, insights, info>>

\* if df.empty: st.error(...); st.stop()
CheckEmpty(v) ==
    /\ pc[v] = "check"
    /\ IF DfEmpty(df[v])
       THEN /\ pc' = [pc EXCEPT ![v] = "halted"]
            /\ ui' = [ui EXCEPT ![v] = Append(@, "no_data")]
       ELSE /\ pc' = [pc EXCEPT ![v] = After(v, "check")]
            /\ UNCHANGED ui
    /\ UNCHANGED <<file, df, cache, kpi, dept, sal, ot, insights, info>>

Kpi(v) ==
    /\ pc[v] = "kpi"
    /\ kpi' = [kpi EXCEPT ![v] = IF v = 1 THEN Kpi1(df[v]) ELSE Kpi2(df[v])]
    /\ pc' = [pc EXCEPT ![v] = After(v, "kpi")]
    /\ UNCHANGED <<file, df, cache, ui, dept, sal, ot, insights, info>>

Dept(v) ==
    /\ pc[v] = "dept"
    /\ dept' = [dept EXCEPT ![v] = IF v = 1 THEN Dept1(df[v]) ELSE Dept2(df[v])]
    /\ pc' = [pc EXCEPT ![v] = After(v, "dept")]
    /\ UNCHANGED <<file, df, cache, ui, kpi, sal, ot, insights, info>>

Sal(v) ==
    /\ pc[v] = "sal"
    /\ sal' = [sal EXCEPT ![v] = IF v = 1 THEN Sal1(df[v]) ELSE Sal2(df[v])]
    /\ IF v = 1 /\ Sal1Raises(df[v])
       THEN /\ pc' = [pc EXCEPT ![v] = "faulted"]
            /\ ui' = [ui EXCEPT ![v] = Append(@, "ValueError")]
       ELSE /\ pc' = [pc EXCEPT ![v] = After(v, "sal")]
            /\ UNCHANGED ui
    /\ UNCHANGED <<file, df, cache, kpi, dept, ot, insights, info>>

Ot(v) ==
    /\ pc[v] = "ot"
    /\ ot' = [ot EXCEPT ![v] = IF v = 1 THEN Ot1(df[v]) ELSE Ot2(df[v])]
    /\ \E perCategory \in BOOLEAN :
          IF v = 1 /\ Ot1Raises(df[v], perCategory)
          THEN /\ pc' = [pc EXCEPT ![v] = "faulted"]
               /\ ui' = [ui EXCEPT ![v] = Append(@, "IndexError")]
          ELSE /\ pc' = [pc EXCEPT ![v] = After(v, "ot")]
               /\ UNCHANGED ui
    /\ UNCHANGED <<file, df, cache, kpi, dept, sal, insights, info>>

Insights(v) ==
    /\ pc[v] = "insights"
    /\ insights' = [insights EXCEPT ![v] =
                        IF v = 1 THEN Insights1(df[v], kpi[v], dept[v], sal[v], ot[v])
                        ELSE Insights2(df[v], kpi[v])]
    /\ pc' = [pc EXCEPT ![v] = After(v, "insights")]
    /\ UNCHANGED <<file, df, cache, ui, kpi, dept, sal, ot, info>>

\* hr_analysis2.py only: correlation heatmap, data summary, footer
DataInfo(v) ==
    /\ pc[v] = "datainfo"
    /\ info' = [info EXCEPT ![v] = DataSummary(df[v])]
    /\ pc' = [pc EXCEPT ![v] = After(v, "datainfo")]
    /\ UNCHANGED <<file, df, cache, ui, kpi, dept, sal, ot, insights>>

\* The framework runs the script again from the top; the load_df cache survives.
Rerun(v) ==
    /\ Ended(pc[v])
    /\ pc' = [pc EXCEPT ![v] = "load"]
    /\ df' = [df EXCEPT ![v] = EMPTY_DF]
    /\ ui' = [ui EXCEPT ![v] = <<>>]
    /\ kpi' = [kpi EXCEPT ![v] = NO_KPI]
    /\ dept' = [dept EXCEPT ![v] = <<>>]
    /\ sal' = [sal EXCEPT ![v] = <<>>]
    /\ ot' = [ot EXCEPT ![v] = <<>>]
    /\ insights' = [insights EXCEPT ![v] = <<>>]
    /\ info' = [info EXCEPT ![v] = NO_INFO]
    /\ UNCHANGED <<file, cache>>

Next ==
    \E v \in Variants :
        \/ Load(v)
        \/ CheckEmpty(v)
        \/ Kpi(v)
        \/ Dept(v)
        \/ Sal(v)
        \/ Ot(v)
        \/ Insights(v)
        \/ DataInfo(v)
        \/ Rerun(v)

\* ------------------------------------------------------------------ inputs
\* A CSV row with all six columns; a file holds the columns in file.cols only.
RawRow(a, d, s, o) ==
    [attrition_yn |-> a, headcount |-> 1, over18 |-> "Y", dept |-> d, sal_pct |-> s, overtime |-> o]
Restrict(row, cols) == [c \in cols |-> row[c]]
TableFile(cols, rows) ==
    [kind |-> "table", cols |-> cols, rows |-> [i \in 1..Len(rows) |-> Restrict(rows[i], cols)]]
NoTable(kind) == [kind |-> kind, cols |-> {}, rows |-> <<>>]

\* Loader inputs: a missing file, a malformed file, or a table with any non-empty
\* subset of the columns and up to MaxRows rows whose attrition cell is
\* "Yes", "No", an unrecognised value or missing.
LoadRowTypes == {RawRow(a, "A", 110, "No") : a \in {"Yes", "No", "Maybe", NULL}}
LoadFiles ==
    {NoTable("missing"), NoTable("malformed")}
    \cup {TableFile(cols, rows) :
            cols \in (SUBSET AllCols) \ {{}},
            rows \in UNION {[1..n -> LoadRowTypes] : n \in 0..MaxRows}}

\* Aggregation inputs: well-formed tables with all columns and 1..MaxRowsAgg rows.
\* A row is "Yes" or "No" combined with one of the profiles (dept, sal_pct, overtime).
\* Rows are listed in a fixed order of row types.
AggProfiles ==
    << <<"A", 110, "No">>, <<"A", 125, "Yes">>, <<"B", 115, "Yes">>,
       <<NULL, NAN, NULL>>, <<"C", 135, "No">> >>
AggRowType(i) ==
    LET p == AggProfiles[(i + 1) \div 2]
    IN  RawRow(IF i % 2 = 1 THEN "Yes" ELSE "No", p[1], p[2], p[3])
RECURSIVE NonDecreasing(_, _, _)
NonDecreasing(len, lo, hi) ==
    IF len = 0 THEN {<<>>}
    ELSE UNION {{<<i>> \o s : s \in NonDecreasing(len - 1, i, hi)} : i \in lo..hi}
AggFiles ==
    {TableFile(AllCols, [i \in 1..Len(ix) |-> AggRowType(ix[i])]) :
        ix \in UNION {NonDecreasing(n, 1, 2 * Len(AggProfiles)) : n \in 1..MaxRowsAgg}}

\* The pages in `open` are rendered; the other one is never opened.
InitRender(files, open) ==
    /\ file \in files
    /\ pc = [v \in Variants |-> IF v \in open THEN "load" ELSE "idle"]
    /\ df = [v \in Variants |-> EMPTY_DF]
    /\ cache = [v \in Variants |-> NO_CACHE]
    /\ ui = [v \in Variants |-> <<>>]
    /\ kpi = [v \in Variants |-> NO_KPI]
    /\ dept = [v \in Variants |-> <<>>]
    /\ sal = [v \in Variants |-> <<>>]
    /\ ot = [v \in Variants |-> <<>>]
    /\ insights = [v \in Variants |-> <<>>]
    /\ info = [v \in Variants |-> NO_INFO]

\* One page, loader inputs
Init == \E v \in Variants : InitRender(LoadFiles, {v})
Spec == Init /\ [][Next]_vars

\* One page, aggregation inputs
InitAgg == \E v \in Variants : InitRender(AggFiles, {v})
SpecAgg == InitAgg /\ [][Next]_vars

\* Both pages on the same file
InitBoth == InitRender(LoadFiles \cup AggFiles, Variants)
SpecBoth == InitBoth /\ [][Next]_vars

\* ================================================================== claims
\* load_df has returned in the current render of variant v
Loaded(v) == cache[v].hit /\ pc[v] \notin {"idle", "load"}
Tags(v) == {insights[v][i].tag : i \in 1..Len(insights[v])}
\* The file is missing, malformed, or a table with the attrition field and no rows
NoRowsInput ==
    \/ file.kind \in {"missing", "malformed"}
    \/ Len(file.rows) = 0 /\ "attrition_yn" \in file.cols

\* C1 (as stated): whenever the file is missing, malformed or a table with no
\* rows, load_df returns an empty table and the render halts after the
\* data-unavailable message; no later section runs and no exception propagates.
C1_HaltsOnNoData ==
    \A v \in Variants :
        NoRowsInput =>
            /\ pc[v] \in {"idle", "load", "check", "halted"}
            /\ pc[v] \in {"check", "halted"} => DfEmpty(df[v])
            /\ pc[v] = "halted" => ui[v][Len(ui[v])] = "no_data"

\* C2: after load_df returns, every row's flag is 0 or 1, it is 1 exactly for
\* "Yes" and 0 exactly for "No", and no row whose attrition cell is anything
\* else (a missing cell included) is in a returned table with a flag.
C2_FlagIsZeroOrOne ==
    \A v \in Variants :
        (Loaded(v) /\ "quit" \in df[v].cols) =>
            /\ Len(df[v].rows) = Len(file.rows)
            /\ \A i \in 1..Len(df[v].rows) :
                  /\ df[v].rows[i]["quit"] \in {0, 1}
                  /\ df[v].rows[i]["quit"] = 1 <=> file.rows[i]["attrition_yn"] = "Yes"
                  /\ df[v].rows[i]["quit"] = 0 <=> file.rows[i]["attrition_yn"] = "No"

\* C2 witness: a table with a "Yes" row and a "No" row has been loaded.
C2_Witness ==
    \E v \in Variants :
        /\ Loaded(v) /\ "quit" \in df[v].cols
        /\ \E i, j \in 1..Len(df[v].rows) :
              df[v].rows[i]["quit"] = 1 /\ df[v].rows[j]["quit"] = 0

\* C6 (as stated): for every readable table (attrition cells all "Yes"/"No"),
\* whichever of the two uninformative columns are present, load_df succeeds,
\* the returned table holds neither of them, and every other column is kept.
C6_DropsIfPresent ==
    \A v \in Variants :
        ( /\ file.kind = "table"
          /\ "attrition_yn" \in file.cols
          /\ \A i \in 1..Len(file.rows) : file.rows[i]["attrition_yn"] \in {"Yes", "No"}
          /\ pc[v] \notin {"idle", "load"} ) =>
            /\ cache[v].hit
            /\ df[v].cols \cap DropCols = {}
            /\ (file.cols \ DropCols) \subseteq df[v].cols

\* C7 (as stated): load_df is idempotent and has no side effect: when it has
\* returned no UI message has been emitted, on the success and on the failure
\* path, and every call on the unchanged file returns the same table.
C7_LoadIsPure ==
    \A v \in Variants :
        /\ pc[v] = "check" => ui[v] = <<>>
        /\ Loaded(v) => df[v] = cache[v].value /\ df[v] = LoadDf(v, file).value

\* ------------------------------------------------ counting, from the table
\* Row r belongs to group k of a dimension.  A salary row belongs to the whole
\* number nearest to its percentage (to the even one when two are equally near).
Abs(x) == IF x < 0 THEN 0 - x ELSE x
Member(r, dim, k) ==
    IF dim = "sal_pct"
    THEN /\ r["sal_pct"] # NAN
         /\ \/ Abs(r["sal_pct"] - 10 * k) < 5
            \/ Abs(r["sal_pct"] - 10 * k) = 5 /\ k % 2 = 0
    ELSE r[dim] = k
Missing(r, dim) == IF dim = "sal_pct" THEN r["sal_pct"] = NAN ELSE r[dim] = NULL
GroupSize(v, dim, k) ==
    Cardinality({i \in 1..Len(df[v].rows) : Member(df[v].rows[i], dim, k)})
GroupQuits(v, dim, k) ==
    Cardinality({i \in 1..Len(df[v].rows) :
                    Member(df[v].rows[i], dim, k) /\ df[v].rows[i]["quit"] = 1})
Quits(v) == Cardinality({i \in 1..Len(df[v].rows) : df[v].rows[i]["quit"] = 1})
QuitsWithKey(v, dim) ==
    Cardinality({i \in 1..Len(df[v].rows) :
                    ~Missing(df[v].rows[i], dim) /\ df[v].rows[i]["quit"] = 1})

Dims == {"dept", "sal_pct", "overtime"}
Series(v, dim) == IF dim = "dept" THEN dept[v] ELSE IF dim = "sal_pct" THEN sal[v] ELSE ot[v]
\* The section that computes the series of a dimension has run in this render
Ready(v, dim) ==
    /\ dim \in df[v].cols /\ "quit" \in df[v].cols
    /\ pc[v] \in (IF dim = "dept" THEN {"sal", "ot"} ELSE IF dim = "sal_pct" THEN {"ot"} ELSE {})
                 \cup {"done", IF v = 1 THEN "insights" ELSE "datainfo"}

\* rate = quits in the group / rows in the group * 100
ExactRate(v, dim, e) ==
    e.rate.num * GroupSize(v, dim, e.key) = Percent * GroupQuits(v, dim, e.key) * e.rate.den
\* rate = that value rounded to one decimal
RoundedRate(v, dim, e) ==
    /\ e.rate.den = 10
    /\ 2 * Abs(e.rate.num * GroupSize(v, dim, e.key) - 10 * Percent * GroupQuits(v, dim, e.key))
          <= GroupSize(v, dim, e.key)
\* every row with a grouping value is in exactly one group of the series
Partition(v, dim) ==
    /\ \A i \in 1..Len(df[v].rows) :
          ~Missing(df[v].rows[i], dim) =>
             \E j \in 1..Len(Series(v, dim)) : Member(df[v].rows[i], dim, Series(v, dim)[j].key)
    /\ \A j \in 1..Len(Series(v, dim)) : GroupSize(v, dim, Series(v, dim)[j].key) > 0
    /\ \A j, l \in 1..Len(Series(v, dim)) :
          j # l => Series(v, dim)[j].key # Series(v, dim)[l].key
\* the sum over the groups of rate * group size
RECURSIVE WeightedSum(_, _, _)
WeightedSum(v, dim, s) ==
    IF s = <<>> THEN Frac(0, 1)
    ELSE LET h == Head(s)
             t == WeightedSum(v, dim, Tail(s))
         IN  Frac(h.rate.num * GroupSize(v, dim, h.key) * t.den + t.num * h.rate.den,
                  h.rate.den * t.den)
\* overall rate * total row count
OverallTimesRows(v) == Frac(kpi[v].quit_rate.num * kpi[v].n, kpi[v].quit_rate.den)

\* C3 (as stated): for each dimension the rate of a group is quits / rows of the
\* group * 100, and the sum over the groups of rate * size equals the overall
\* rate (over all rows, rows without a grouping value included) * row count.
C3_RatesAndWeightedSum ==
    \A v \in Variants : \A dim \in Dims :
        Ready(v, dim) =>
            /\ \A j \in 1..Len(Series(v, dim)) : ExactRate(v, dim, Series(v, dim)[j])
            /\ FEq(WeightedSum(v, dim, Series(v, dim)), OverallTimesRows(v))

\* C3 (amended): for each dimension the groups partition the rows that have a
\* grouping value; the rate of a group is quits / rows of the group * 100,
\* except that hr_analysis2.py rounds the department rate to one decimal; and
\* the sum over the groups of the unrounded rate * size is 100 * the number of
\* quit rows that have a grouping value, which is overall rate * row count
\* exactly when no quit row lacks a grouping value.
C3_RatesOverRowsWithKey ==
    \A v \in Variants : \A dim \in Dims :
        Ready(v, dim) =>
            /\ Partition(v, dim)
            /\ IF v = 2 /\ dim = "dept"
               THEN \A j \in 1..Len(dept[v]) : RoundedRate(v, dim, dept[v][j])
               ELSE /\ \A j \in 1..Len(Series(v, dim)) : ExactRate(v, dim, Series(v, dim)[j])
                    /\ FEq(WeightedSum(v, dim, Series(v, dim)),
                           FInt(Percent * QuitsWithKey(v, dim)))
                    /\ FEq(WeightedSum(v, dim, Series(v, dim)), OverallTimesRows(v))
                          <=> QuitsWithKey(v, dim) = Quits(v)

\* C3 witness: hr_analysis2.py has a department series of two groups or more,
\* one of them with a rate that rounding changed, while a quit row has no department.
C3_Witness ==
    /\ Ready(2, "dept") /\ Len(dept[2]) >= 2
    /\ QuitsWithKey(2, "dept") < Quits(2)
    /\ \E j \in 1..Len(dept[2]) : ~ExactRate(2, "dept", dept[2][j])

\* ------------------------------------------------------------- C4 and C5
HasTag(v, t) == t \in Tags(v)
\* the names the sentence with tag t lists
Named(v, t) ==
    UNION {Range(insights[v][i].names) : i \in {j \in 1..Len(insights[v]) : insights[v][j].tag = t}}
\* the script says that attrition is high / needs attention
SaysHigh(v) ==
    IF v = 1 THEN HasTag(v, "summary_needs_attention") \/ HasTag(v, "overall_needs_management")
    ELSE kpi[v].quit_delta = "needs_attention" \/ HasTag(v, "quit_measures_needed")
SaysStable(v) ==
    IF v = 1 THEN HasTag(v, "summary_stable") /\ HasTag(v, "overall_stable")
    ELSE kpi[v].quit_delta = "lower_is_better" /\ HasTag(v, "quit_adequate")
\* overall rate > 20, counted from the table
OverallAbove(v, pct) == Percent * Quits(v) > pct * Len(df[v].rows)
OverallAtLeast(v, pct) == Percent * Quits(v) >= pct * Len(df[v].rows)
\* department rate > overall rate + 5, counted from the table
DeptAboveOverall(v, k) ==
    Percent * GroupQuits(v, "dept", k) * Len(df[v].rows)
        > (Percent * Quits(v) + DeptMarginPct * Len(df[v].rows)) * GroupSize(v, "dept", k)
DeptAtMargin(v, k) ==
    Percent * GroupQuits(v, "dept", k) * Len(df[v].rows)
        = (Percent * Quits(v) + DeptMarginPct * Len(df[v].rows)) * GroupSize(v, "dept", k)
DeptNames(v) == {df[v].rows[i]["dept"] : i \in 1..Len(df[v].rows)} \ {NULL}
InsightsShown(v) == pc[v] = "done" /\ kpi[v].shown

\* C4 (as stated): in every render that reaches the insight step, the "attrition
\* is high / needs attention" wording is emitted iff the overall rate is strictly
\* above 20 (the "stable" wording otherwise), and a department is named in the
\* "flagged high" sentence iff its rate is strictly above the overall rate + 5.
C4_HighIffAbove20 ==
    \A v \in Variants :
        InsightsShown(v) =>
            /\ SaysHigh(v) <=> OverallAbove(v, HighQuitPct)
            /\ SaysStable(v) <=> ~OverallAbove(v, HighQuitPct)
            /\ "dept" \in df[v].cols =>
                  \A k \in DeptNames(v) : k \in Named(v, "dept_high") <=> DeptAboveOverall(v, k)

\* C4 (amended): in every render of hr_analysis.py that reaches the insight step
\* the "needs attention" wording is emitted iff the overall rate is strictly above
\* 20 (the "stable" wording otherwise, also at exactly 20), and a department is
\* named in the "flagged high" sentence iff its rate is strictly above the overall
\* rate + 5.  hr_analysis2.py marks the rate "needs attention" iff it is at least
\* 20, says that measures are needed iff it is at least 15, and names no department.
C4_Variant1HighIffAbove20 ==
    /\ InsightsShown(1) =>
          /\ SaysHigh(1) <=> OverallAbove(1, HighQuitPct)
          /\ SaysStable(1) <=> ~OverallAbove(1, HighQuitPct)
          /\ SaysHigh(1) <=> ~SaysStable(1)
          /\ "dept" \in df[1].cols =>
                \A k \in DeptNames(1) : k \in Named(1, "dept_high") <=> DeptAboveOverall(1, k)
    /\ InsightsShown(2) =>
          /\ kpi[2].quit_delta = "needs_attention" <=> OverallAtLeast(2, HighQuitPct)
          /\ HasTag(2, "quit_measures_needed") <=> OverallAtLeast(2, OkQuitPct)
          /\ \A i \in 1..Len(insights[2]) : insights[2][i].names = <<>>

\* C4 witness: hr_analysis.py reached the insights with an overall rate of exactly
\* 20 ("stable") while one department sits exactly at overall + 5 and is not named.
C4_Witness ==
    /\ InsightsShown(1)
    /\ Percent * Quits(1) = HighQuitPct * Len(df[1].rows)
    /\ SaysStable(1)
    /\ \E k \in DeptNames(1) : DeptAtMargin(1, k) /\ k \notin Named(1, "dept_high")

\* C5: for every loaded table with a row, overall rate = quits / rows * 100, the
\* displayed quit count is the number of quit rows, stay rate = 100 - overall
\* rate, the two add up to 100 and both lie in [0, 100].
C5_OverallAndStayRate ==
    \A v \in Variants :
        kpi[v].shown =>
            /\ kpi[v].n = Len(df[v].rows) /\ kpi[v].n >= 1
            /\ kpi[v].quit_n = Quits(v)
            /\ kpi[v].quit_rate.num * kpi[v].n = Percent * Quits(v) * kpi[v].quit_rate.den
            /\ kpi[v].stay_rate.num * kpi[v].n
                  = Percent * (kpi[v].n - Quits(v)) * kpi[v].stay_rate.den
            /\ FEq(Frac(kpi[v].quit_rate.num * kpi[v].stay_rate.den
                          + kpi[v].stay_rate.num * kpi[v].quit_rate.den,
                        kpi[v].quit_rate.den * kpi[v].stay_rate.den), FInt(Percent))
            /\ FLe(FInt(0), kpi[v].quit_rate) /\ FLe(kpi[v].quit_rate, FInt(Percent))
            /\ FLe(FInt(0), kpi[v].stay_rate) /\ FLe(kpi[v].stay_rate, FInt(Percent))

\* C5 witness: the KPI tiles of a table in which some rows quit and some stayed.
C5_Witness ==
    \E v \in Variants : kpi[v].shown /\ 0 < Quits(v) /\ Quits(v) < kpi[v].n /\ kpi[v].n >= 3

\* -------------------------------------------------------------- C9 and C10
SortedByRateDesc(s) == \A j \in 1..(Len(s) - 1) : FLe(s[j + 1].rate, s[j].rate)
Position(k) == CHOOSE i \in 1..Len(StringOrder) : StringOrder[i] = k
BucketsAscending(s) == \A j \in 1..(Len(s) - 1) : s[j].key < s[j + 1].key
LevelsAscending(s) == \A j \in 1..(Len(s) - 1) : Position(s[j].key) < Position(s[j + 1].key)

\* C9 (as stated): for each of the three dimensions the series handed to the
\* chart is in non-increasing order of rate.
C9_AllSeriesSortedByRate ==
    \A v \in Variants : \A dim \in Dims :
        Ready(v, dim) => SortedByRateDesc(Series(v, dim))

\* C9 (amended): the department series handed to the chart is in non-increasing
\* order of rate; the salary-bucket and overtime-level series are in ascending
\* order of their group key (bucket value, level name), whatever the rates.
C9_DeptSortedOthersByKey ==
    \A v \in Variants :
        /\ Ready(v, "dept") => SortedByRateDesc(dept[v])
        /\ Ready(v, "sal_pct") => BucketsAscending(sal[v])
        /\ Ready(v, "overtime") => LevelsAscending(ot[v])

\* C9 witness: a department series whose key order is not its rate order (it was
\* reordered), next to a salary series whose rates increase along the buckets.
C9_Witness ==
    \E v \in Variants :
        /\ Ready(v, "overtime")
        /\ \E j \in 1..(Len(dept[v]) - 1) :
              /\ Position(dept[v][j + 1].key) < Position(dept[v][j].key)
              /\ FLt(dept[v][j + 1].rate, dept[v][j].rate)
        /\ \E j \in 1..(Len(sal[v]) - 1) : FLt(sal[v][j].rate, sal[v][j + 1].rate)

\* C10: in hr_analysis.py, for every table with the salary column and a non-null
\* salary row, the salary rule compares the least rate with the greatest rate, so
\* the "low raise, more attrition" sentence is never emitted and the "no clear
\* correlation" sentence is emitted in every render that reaches the insights.
C10_SalaryRuleNeverFires ==
    (pc[1] = "done" /\ "sal_pct" \in df[1].cols) =>
        /\ sal[1] # <<>>
        /\ \A j \in 1..Len(sal[1]) :
              FLe(At(sal[1], IdxMin(sal[1])), sal[1][j].rate)
              /\ FLe(sal[1][j].rate, At(sal[1], IdxMax(sal[1])))
        /\ ~HasTag(1, "low_raise_quits_more")
        /\ HasTag(1, "no_salary_correlation")

\* C10 witness: hr_analysis.py finished on a table whose lowest salary bucket has
\* a strictly higher rate than its highest bucket, and said "no clear correlation".
C10_Witness ==
    /\ pc[1] = "done" /\ Len(sal[1]) >= 2
    /\ FGt(sal[1][1].rate, sal[1][Len(sal[1])].rate)
    /\ HasTag(1, "no_salary_correlation")

\* ---------------------------------------------------------------------- C8
Outcome(v) == IF pc[v] = "done" THEN "rendered" ELSE pc[v]
SameRates(s, t) ==
    /\ Len(s) = Len(t)
    /\ \A j \in 1..Len(s) : s[j].key = t[j].key /\ FEq(s[j].rate, t[j].rate)

\* C8 (as stated): on every input (a missing file, a malformed file, a table that
\* has the attrition field) the two scripts reach the same outcome (halted,
\* faulted or rendered), and when rendered they have the same loaded table, the
\* same overall and stay rate, the same rates per department, salary bucket and
\* overtime level, and the same high / not-high classification of the overall rate.
C8_VariantsEquivalent ==
    ( /\ Ended(pc[1]) /\ Ended(pc[2])
      /\ file.kind = "table" => "attrition_yn" \in file.cols ) =>
        /\ Outcome(1) = Outcome(2)
        /\ (pc[1] = "done" /\ pc[2] = "done") =>
              /\ df[1] = df[2]
              /\ kpi[1].shown = kpi[2].shown
              /\ FEq(kpi[1].quit_rate, kpi[2].quit_rate)
              /\ FEq(kpi[1].stay_rate, kpi[2].stay_rate)
              /\ SameRates(dept[1], dept[2])
              /\ SameRates(sal[1], sal[2])
              /\ SameRates(ot[1], ot[2])
              /\ SaysHigh(1) <=> SaysHigh(2)

====
